---- MODULE Spec2Model ----
(***************************************************************************)
(* The symbolic-value arithmetic of the algebra crate: the bounded integer *)
(* utilities, the factoring engine, the Fraction and Radical reducers (in  *)
(* both trees of the repository: notation/ and sym/) and the arithmetic    *)
(* operators.  Every routine is a pure function, so a behaviour is: an     *)
(* input is constructed (Init), one operation is applied to it, and        *)
(* optionally a follow-up operation is applied to the result.              *)
(*                                                                         *)
(* i32 is scaled down to IntBits bits, two's complement.  An arithmetic    *)
(* overflow of + - * abs panics in a build with overflow checks and wraps  *)
(* in one without; the build is part of the state (build).                 *)
(* Overflow of / and % panics in every build.                              *)
(***************************************************************************)
EXTENDS Integers, Sequences, FiniteSets

VARIABLES
    build,            \* "debug": overflow checks on; "release": off
    v,                \* the input of the operation
    op,               \* the operation applied ("" before any)
    out,              \* the result of the operation
    op2,              \* the follow-up operation ("" before any)
    out2              \* the result of the follow-up operation

vars == <<build, v, op, out, op2, out2>>

\* Whether the build panics on an arithmetic overflow (-C overflow-checks).
overflow_checks == build = "debug"

(***************************************************************************)
(* Bounded integers                                                        *)
(***************************************************************************)
IntBits == 6

RECURSIVE Pow2(_)
Pow2(n) == IF n = 0 THEN 1 ELSE 2 * Pow2(n - 1)

I32_MAX == Pow2(IntBits - 1) - 1
I32_MIN == -Pow2(IntBits - 1)
I32 == I32_MIN..I32_MAX

\* Two's complement reduction of a mathematical integer.
Wrap(x) == ((x - I32_MIN) % Pow2(IntBits)) + I32_MIN

Overflows(x) == x < I32_MIN \/ x > I32_MAX

wrapping_abs(n) == Wrap(IF n < 0 THEN -n ELSE n)
wrapping_neg(n) == Wrap(-n)
wrapping_mul(a, b) == Wrap(a * b)
wrapping_add(a, b) == Wrap(a + b)

\* Rust's / and % truncate toward zero; a % b has the sign of a.
Magnitude(n) == IF n < 0 THEN -n ELSE n
TruncDiv(a, b) ==
    IF (a < 0) = (b < 0) THEN Magnitude(a) \div Magnitude(b)
    ELSE -(Magnitude(a) \div Magnitude(b))
TruncRem(a, b) == a - b * TruncDiv(a, b)

\* a / b and a % b panic in every build when b = 0 or when a = MIN, b = -1.
DivPanics(a, b) == b = 0 \/ (a = I32_MIN /\ b = -1)

None == [some |-> FALSE, val |-> 0]
Some(x) == [some |-> TRUE, val |-> x]

checked_add(a, b) == IF Overflows(a + b) THEN None ELSE Some(a + b)
checked_mul(a, b) == IF Overflows(a * b) THEN None ELSE Some(a * b)
checked_neg(a) == IF Overflows(-a) THEN None ELSE Some(-a)

Saturate(x) == IF x > I32_MAX THEN I32_MAX ELSE IF x < I32_MIN THEN I32_MIN ELSE x
saturating_add(a, b) == Saturate(a + b)
saturating_mul(a, b) == Saturate(a * b)

(***************************************************************************)
(* Values: atoms, expressions, and the outcome of an operation             *)
(***************************************************************************)
Num(n) == [k |-> "Num", v |-> n]
Var(id) == [k |-> "Var", v |-> id]
Imaginary(n) == [k |-> "Imaginary", v |-> n]
Complex == [k |-> "Complex", v |-> 0]
Undefined == [k |-> "Undefined", v |-> 0]
Huge == [k |-> "Huge", v |-> 0]
NegHuge == [k |-> "NegHuge", v |-> 0]
Epsilon == [k |-> "Epsilon", v |-> 0]
NegEpsilon == [k |-> "NegEpsilon", v |-> 0]
Unknown == [k |-> "Unknown", v |-> 0]

IsNum(a) == a.k = "Num"
IsHugeClass(a) == a.k \in {"Huge", "NegHuge"}
IsEpsilonClass(a) == a.k \in {"Epsilon", "NegEpsilon"}

Atom(a) == [t |-> "Atom", a |-> a]
Fraction(num, den) == [t |-> "Fraction", num |-> num, den |-> den]
Radical(coef, rad) == [t |-> "Radical", coef |-> coef, rad |-> rad]

\* The operation did not return: it panicked, or it never terminates.
Panic == [t |-> "Panic"]
Diverge == [t |-> "Diverge"]
NoValue == [t |-> "None"]

IsAtom(s) == s.t = "Atom"
IsExpr(s) == s.t \in {"Fraction", "Radical"}
Returned(s) == s.t \in {"Atom", "Fraction", "Radical"}

\* What the build makes of a computation in which + - * or abs overflowed.
Checked(overflowed, checks, wrapped) ==
    IF overflowed /\ checks THEN Panic ELSE wrapped

(***************************************************************************)
(* Atom: sign and negation                                                 *)
(***************************************************************************)
\* is_positive without its Huge alternative.
is_positive_WithoutHuge(a) ==
    \/ (a.k = "Num" /\ a.v >= 0)
    \/ a.k = "Epsilon"

is_positive(a) ==
    \/ (a.k = "Num" /\ a.v >= 0)
    \/ a.k = "Huge"
    \/ a.k = "Epsilon"

is_negative(a) ==
    \/ (a.k = "Num" /\ a.v <= -1)
    \/ a.k = "NegHuge"
    \/ a.k = "NegEpsilon"

neg(a) ==
    IF a.k = "Num" THEN Num(wrapping_neg(a.v))
    ELSE IF a.k = "Huge" THEN NegHuge
    ELSE IF a.k = "NegHuge" THEN Huge
    ELSE IF a.k = "Epsilon" THEN NegEpsilon
    ELSE IF a.k = "NegEpsilon" THEN Epsilon
    ELSE a

(***************************************************************************)
(* Factoring engine                                                        *)
(***************************************************************************)
is_multiple_of(self, other) == TruncRem(self, other) = 0
is_factor_of(self, other) == is_multiple_of(other, self)
is_common_factor_of(self, others) ==
    \A i \in 1..Len(others) : is_factor_of(self, others[i])
is_common_multiple_of(self, others) ==
    \A i \in 1..Len(others) : is_multiple_of(self, others[i])

MapAbs(ns) == [i \in 1..Len(ns) |-> wrapping_abs(ns[i])]
AbsOverflows(ns) == \E i \in 1..Len(ns) : ns[i] = I32_MIN
SeqMin(ns) == CHOOSE m \in {ns[i] : i \in 1..Len(ns)} :
                  \A i \in 1..Len(ns) : m <= ns[i]
SeqMax(ns) == CHOOSE m \in {ns[i] : i \in 1..Len(ns)} :
                  \A i \in 1..Len(ns) : m >= ns[i]

\* gcf: the first candidate of (2..=n_min).rev() dividing every |n|, else 1.
gcf(ns) ==
    LET abs_ns == MapAbs(ns)
        n_min == SeqMin(abs_ns)
        common == {g \in 2..n_min : is_common_factor_of(g, abs_ns)}
    IN  IF common = {} THEN 1
        ELSE CHOOSE g \in common : \A h \in common : h <= g

(***************************************************************************)
(* Fraction reducer, notation tree: notation/expr/fraction.rs              *)
(***************************************************************************)
\* NotationFractionOfNumbers with the sign taken from the numerator alone.
NotationFractionOfNumbers_SignOfNum(num, den, checks) ==
    IF DivPanics(num, den) THEN Panic
    ELSE IF is_factor_of(den, num) THEN Atom(Num(TruncDiv(num, den)))
    ELSE LET sign == IF num < 0 THEN -1 ELSE 1
             num_abs == wrapping_abs(num)
             den_abs == wrapping_abs(den)
             g == gcf(<<num_abs, den_abs>>)
             overflowed == \/ AbsOverflows(<<num, den>>)
                           \/ Overflows(sign * num_abs)
         IN  Checked(overflowed, checks,
                     Fraction(Num(TruncDiv(wrapping_mul(sign, num_abs), g)),
                              Num(TruncDiv(den_abs, g))))

\* The (Number, Number) arm.
NotationFractionOfNumbers(num, den, checks) ==
    IF DivPanics(num, den) THEN Panic     \* den.is_factor_of(num) is num % den
    ELSE IF is_factor_of(den, num) THEN Atom(Num(TruncDiv(num, den)))
    ELSE LET sign == IF (num < 0) # (den < 0) THEN -1 ELSE 1
             num_abs == wrapping_abs(num)
             den_abs == wrapping_abs(den)
             g == gcf(<<num_abs, den_abs>>)
             overflowed == \/ AbsOverflows(<<num, den>>)
                           \/ AbsOverflows(<<num_abs, den_abs>>)
                           \/ Overflows(sign * num_abs)
         IN  Checked(overflowed, checks,
                     Fraction(Num(TruncDiv(wrapping_mul(sign, num_abs), g)),
                              Num(TruncDiv(den_abs, g))))

\* The arms of the match, first match first.
NotationFractionSimplify(num, den, checks) ==
    IF num.k = "Complex" \/ den.k = "Complex" THEN Atom(Complex)
    ELSE IF num.k = "Undefined" \/ den.k = "Undefined" \/ den = Num(0)
    THEN Atom(Undefined)
    ELSE IF num = Num(0) THEN Atom(Num(0))
    ELSE IF (IsHugeClass(num) \/ IsEpsilonClass(num)) /\ IsNum(den)
    THEN Atom(IF is_positive(num) = is_positive(den) THEN num ELSE neg(num))
    ELSE IF IsNum(num) /\ IsNum(den)
    THEN NotationFractionOfNumbers(num.v, den.v, checks)
    ELSE IF IsHugeClass(num) /\ IsHugeClass(den)
    THEN Atom(IF is_positive(num) = is_positive(den) THEN Huge ELSE NegHuge)
    ELSE IF (IsNum(num) \/ IsEpsilonClass(num)) /\ IsHugeClass(den)
    THEN Atom(IF is_positive(num) = is_positive(den) THEN Epsilon ELSE NegEpsilon)
    ELSE \* (num, den @ (Epsilon | NegativeEpsilon))
         Atom(IF is_positive(num) = is_positive(den) THEN Huge ELSE NegHuge)

(***************************************************************************)
(* Fraction reducer, sym tree: sym/expr.rs                                 *)
(***************************************************************************)
\* The "Ordinary fraction" arm.
SymFractionOfNumbers(num, den, pos, checks) ==
    IF DivPanics(num, den) THEN Panic     \* den.is_factor_of(num) is num % den
    ELSE IF is_factor_of(den, num) THEN Atom(Num(TruncDiv(num, den)))
    ELSE LET sign == IF pos THEN 1 ELSE -1
             num_abs == wrapping_abs(num)
             den_abs == wrapping_abs(den)
             g == gcf(<<num_abs, den_abs>>)
             overflowed == \/ AbsOverflows(<<num, den>>)
                           \/ AbsOverflows(<<num_abs, den_abs>>)
                           \/ Overflows(sign * num_abs)
         IN  Checked(overflowed, checks,
                     Fraction(Num(TruncDiv(wrapping_mul(sign, num_abs), g)),
                              Num(TruncDiv(den_abs, g))))

\* Equality of atoms as equality of their variants and payloads.
AtomEq_Structural(a, b) == a = b

\* PartialEq for Atom: only Num with Num and Var with Var can be equal.
AtomEq(a, b) ==
    \/ (a.k = "Num" /\ b.k = "Num" /\ a.v = b.v)
    \/ (a.k = "Var" /\ b.k = "Var" /\ a.v = b.v)

\* The arms of the match, first match first.
SymFractionSimplify(num, den, checks) ==
    LET pos == is_positive(num) = is_positive(den)
    IN  IF num.k = "Imaginary" \/ den.k = "Imaginary" THEN Panic     \* todo!()
        ELSE IF den = Num(1) THEN Atom(num)
        ELSE IF num.k = "Undefined" \/ den.k = "Undefined" THEN Atom(Undefined)
        ELSE IF num.k = "Unknown" \/ den.k = "Unknown" THEN Atom(Unknown)
        ELSE IF den = Num(0) THEN Atom(Undefined)
        ELSE IF num = Num(0) THEN Atom(Num(0))
        ELSE IF /\ num.k \in {"Var", "Num"}
                /\ den.k \in {"Var", "Num"}
                /\ AtomEq(num, den)
        THEN Atom(Num(1))
        ELSE IF num.k = "Var" \/ den.k = "Var" THEN Atom(Num(1))
        ELSE IF (IsHugeClass(num) \/ IsEpsilonClass(num)) /\ IsNum(den)
        THEN LET flip_sign == pos # is_positive(num)
             IN  Atom(IF flip_sign THEN neg(num) ELSE num)
        ELSE IF IsHugeClass(num) /\ IsHugeClass(den) THEN Atom(Unknown)
        ELSE IF IsEpsilonClass(den)
        THEN IF IsEpsilonClass(num) THEN Atom(Unknown)
             ELSE Atom(IF pos THEN Huge ELSE NegHuge)
        ELSE IF IsHugeClass(den) THEN Atom(IF pos THEN Epsilon ELSE NegEpsilon)
        ELSE \* (Num(num), Num(den))
             SymFractionOfNumbers(num.v, den.v, pos, checks)

(***************************************************************************)
(* Integer square root: lib.rs and notation/expr/radical.rs (Option<i32>), *)
(* sym/expr.rs (Sym)                                                       *)
(***************************************************************************)
SqrtSome(root) == [r |-> "some", val |-> root]
SqrtNone == [r |-> "none", val |-> 0]
SqrtPanic == [r |-> "panic", val |-> 0]
SqrtDiverge == [r |-> "diverge", val |-> 0]

\* The i-th candidate of the loop of sqrt_i entered at root (root += 1 is an
\* unchecked i32 addition), its square (an unchecked i32 multiplication), and
\* whether one of the two panics.
sqrt_candidate(root, i) == wrapping_add(root, i)
sqrt_square(root, i) == wrapping_mul(sqrt_candidate(root, i), sqrt_candidate(root, i))
sqrt_panics(root, n, checks, i) ==
    checks /\ (\/ Overflows(sqrt_candidate(root, i) * sqrt_candidate(root, i))
               \/ (sqrt_square(root, i) < n /\ Overflows(sqrt_candidate(root, i) + 1)))

\* The first of the candidates lo..hi at which the loop leaves (its square is
\* not below n, or it panics), or -1.  The candidates are visited in order,
\* lower half first.
RECURSIVE sqrt_scan(_, _, _, _, _)
sqrt_scan(root, n, checks, lo, hi) ==
    IF lo = hi
    THEN IF sqrt_panics(root, n, checks, lo) \/ sqrt_square(root, lo) >= n THEN lo ELSE -1
    ELSE LET mid == (lo + hi) \div 2
             first == sqrt_scan(root, n, checks, lo, mid)
         IN  IF first # -1 THEN first ELSE sqrt_scan(root, n, checks, mid + 1, hi)

\* The loop of sqrt_i entered at candidate root.  A scan that comes back to
\* its first candidate never ends.
sqrt_loop(root, n, checks) ==
    LET last == sqrt_scan(root, n, checks, 0, Pow2(IntBits) - 1)
    IN  IF last = -1 THEN SqrtDiverge
        ELSE IF sqrt_panics(root, n, checks, last) THEN SqrtPanic
        ELSE IF sqrt_square(root, last) = n THEN SqrtSome(sqrt_candidate(root, last))
        ELSE SqrtNone

sqrt_i(n, checks) ==
    IF n <= -1 THEN SqrtNone
    ELSE IF n <= 1 THEN SqrtSome(n)
    ELSE sqrt_loop(2, n, checks)

sym_sqrt_i(n, checks) ==
    IF n <= -1 THEN Checked(Overflows(-n), checks, Atom(Imaginary(wrapping_neg(n))))
    ELSE IF n <= 1 THEN Atom(Num(n))
    ELSE LET s == sqrt_loop(2, n, checks)
         IN  IF s.r = "panic" THEN Panic
             ELSE IF s.r = "diverge" THEN Diverge
             ELSE IF s.r = "some" THEN Atom(Num(s.val))
             ELSE Radical(1, n)

(***************************************************************************)
(* factors: factor.rs                                                      *)
(***************************************************************************)
\* [(1, n)] followed by (fac, n / fac) for each fac of 2..abs_n dividing abs_n.
factors(self) ==
    LET abs_n == wrapping_abs(self)
        pot_facs == [i \in 1..(abs_n - 2) |-> i + 1]
        IsFac(pot_fac) == is_factor_of(pot_fac, abs_n)
        facs == SelectSeq(pot_facs, IsFac)
    IN  <<<<1, self>>>> \o [i \in 1..Len(facs) |-> <<facs[i], TruncDiv(self, facs[i])>>]

(***************************************************************************)
(* Radical reducer: notation/expr/radical.rs and sym/expr.rs               *)
(***************************************************************************)
\* [(common, associated), (associated, common)] for each factor pair in turn.
permutations(fs) ==
    [i \in 1..(2 * Len(fs)) |->
        IF i % 2 = 1 THEN <<fs[(i + 1) \div 2][1], fs[(i + 1) \div 2][2]>>
        ELSE <<fs[i \div 2][2], fs[i \div 2][1]>>]

GpsFound(fac, mul) == [r |-> "found", gps_fac |-> fac, gps_mul |-> mul]
GpsPanic == [r |-> "panic", gps_fac |-> 0, gps_mul |-> 0]
GpsDiverge == [r |-> "diverge", gps_fac |-> 0, gps_mul |-> 0]

\* The two nested loops looking for the greatest perfect square factor, from
\* the i-th (a, b) on.
RECURSIVE gps_loop(_, _, _, _, _)
gps_loop(perms, i, gps_fac, gps_mul, checks) ==
    IF i > Len(perms) THEN GpsFound(gps_fac, gps_mul)
    ELSE LET a == perms[i][1]
             b == perms[i][2]
             a_root == sqrt_i(a, checks)
         IN  IF a_root.r = "panic" THEN GpsPanic
             ELSE IF a_root.r = "diverge" THEN GpsDiverge
             ELSE IF a_root.r = "some" /\ a_root.val > gps_fac
             THEN gps_loop(perms, i + 1, a_root.val, b, checks)
             ELSE gps_loop(perms, i + 1, gps_fac, gps_mul, checks)

\* The "Perfect squares" branch, shared by both trees up to sqrt_i's type.
\* sym's sqrt_i negates a negative argument: an overflow for i32::MIN.
PerfectSquares(coef, rad, checks, negates) ==
    LET overflowed == \/ Overflows(coef * coef)
                      \/ Overflows(wrapping_mul(coef, coef) * rad)
        n == wrapping_mul(wrapping_mul(coef, coef), rad)
        perms == permutations(factors(n))
        found == gps_loop(perms, 1, 1, n, checks)
        neg_overflowed == negates /\ \E i \in 1..Len(perms) : perms[i][1] = I32_MIN
    IN  IF checks /\ (overflowed \/ n = I32_MIN \/ neg_overflowed) THEN Panic
        ELSE IF found.r = "panic" THEN Panic
        ELSE IF found.r = "diverge" THEN Diverge
        ELSE Radical(found.gps_fac, found.gps_mul)

NotationRadicalSimplify(coef, rad, checks) ==
    IF rad <= -1 THEN Atom(Complex)
    ELSE IF rad = 0 THEN Atom(Num(0))
    ELSE IF rad = 1 THEN Atom(Num(coef))
    ELSE LET root == sqrt_i(rad, checks)
         IN  IF root.r = "panic" THEN Panic
             ELSE IF root.r = "diverge" THEN Diverge
             ELSE IF root.r = "some"
             THEN Checked(Overflows(coef * root.val), checks,
                          Atom(Num(wrapping_mul(coef, root.val))))
             ELSE PerfectSquares(coef, rad, checks, FALSE)

\* i32::is_positive is rad > 0.
SymRadicalSimplify(coef, rad, checks) ==
    IF rad > 0
    THEN LET root == sym_sqrt_i(rad, checks)
         IN  IF root = Panic THEN Panic
             ELSE IF root = Diverge THEN Diverge
             ELSE IF IsAtom(root) /\ IsNum(root.a)
             THEN Checked(Overflows(coef * root.a.v), checks,
                          Atom(Num(wrapping_mul(coef, root.a.v))))
             ELSE PerfectSquares(coef, rad, checks, TRUE)
    ELSE Atom(Imaginary(1))

(***************************************************************************)
(* The reducers as a state machine                                         *)
(***************************************************************************)
NumVars == 2
MaxImaginary == 2

Numbers == {Num(n) : n \in I32}
\* notation/atom.rs: enum Atom
NotationAtoms ==
    Numbers \cup {Complex, Undefined, Huge, NegHuge, Epsilon, NegEpsilon}
\* sym/atom.rs: enum Atom
SymAtoms ==
    Numbers \cup {Var(id) : id \in 1..NumVars}
            \cup {Imaginary(n) : n \in 1..MaxImaginary}
            \cup {Undefined, Huge, NegHuge, Epsilon, NegEpsilon, Unknown}

FractionInputs ==
    {Fraction(num, den) : num \in NotationAtoms, den \in NotationAtoms}
        \cup {Fraction(num, den) : num \in SymAtoms, den \in SymAtoms}
RadicalInputs == {Radical(coef, rad) : coef \in I32, rad \in I32}

InNotation(e) ==
    \/ e.t = "Radical"
    \/ e.t = "Fraction" /\ e.num \in NotationAtoms /\ e.den \in NotationAtoms
InSym(e) ==
    \/ e.t = "Radical"
    \/ e.t = "Fraction" /\ e.num \in SymAtoms /\ e.den \in SymAtoms

\* impl Simplify for Expr (notation/expr.rs)
NotationExprSimplify(e, checks) ==
    IF e.t = "Fraction" THEN NotationFractionSimplify(e.num, e.den, checks)
    ELSE NotationRadicalSimplify(e.coef, e.rad, checks)

\* Expr::simplify (sym/expr.rs), on a Fraction or a Radical
SymExprSimplify(e, checks) ==
    IF e.t = "Fraction" THEN SymFractionSimplify(e.num, e.den, checks)
    ELSE SymRadicalSimplify(e.coef, e.rad, checks)

simplify(tree, e, checks) ==
    IF tree = "notation" THEN NotationExprSimplify(e, checks)
    ELSE SymExprSimplify(e, checks)

InitWith(inputs) ==
    /\ build \in {"debug", "release"}
    /\ v \in inputs
    /\ op = ""
    /\ out = NoValue
    /\ op2 = ""
    /\ out2 = NoValue

\* notation: expr.simplify()
NotationSimplify ==
    /\ op = ""
    /\ InNotation(v)
    /\ op' = "notation"
    /\ out' = NotationExprSimplify(v, overflow_checks)
    /\ UNCHANGED <<build, v, op2, out2>>

\* sym: expr.simplify()
SymSimplify ==
    /\ op = ""
    /\ InSym(v)
    /\ op' = "sym"
    /\ out' = SymExprSimplify(v, overflow_checks)
    /\ UNCHANGED <<build, v, op2, out2>>

\* result.simplify(): the result of simplify, when an expression, simplified
\* once more by the same tree.
Resimplify ==
    /\ op \in {"notation", "sym"}
    /\ op2 = ""
    /\ IsExpr(out)
    /\ op2' = "simplify"
    /\ out2' = simplify(op, out, overflow_checks)
    /\ UNCHANGED <<build, v, op, out>>

\* Fraction{-num, -den}.simplify(): the sign moved across the fraction bar,
\* for a fraction of two nonzero Numbers whose negations are representable.
SignTransfer ==
    /\ op \in {"notation", "sym"}
    /\ op2 = ""
    /\ v.t = "Fraction"
    /\ IsNum(v.num) /\ IsNum(v.den)
    /\ v.num.v # 0 /\ v.den.v # 0
    /\ ~Overflows(-v.num.v) /\ ~Overflows(-v.den.v)
    /\ op2' = "sign_transfer"
    /\ out2' = simplify(op, Fraction(Num(-v.num.v), Num(-v.den.v)), overflow_checks)
    /\ UNCHANGED <<build, v, op, out>>

InitSimplify == InitWith(FractionInputs \cup RadicalInputs)
NextSimplify == NotationSimplify \/ SymSimplify \/ Resimplify \/ SignTransfer
SpecSimplify == InitSimplify /\ [][NextSimplify]_vars

(***************************************************************************)
(* Arithmetic operators, sym tree: sym/ops/{add,mul,div,pow}.rs            *)
(***************************************************************************)
BothNum(lhs, rhs) == IsAtom(lhs) /\ IsAtom(rhs) /\ IsNum(lhs.a) /\ IsNum(rhs.a)

\* algebraic_add with every saturated sum read as an overflow.
algebraic_add_BySaturation(lhs, rhs) ==
    IF saturating_add(lhs, rhs) = I32_MAX THEN Atom(Huge)
    ELSE IF saturating_add(lhs, rhs) = I32_MIN THEN Atom(NegHuge)
    ELSE Atom(Num(lhs + rhs))

algebraic_add(lhs, rhs) ==
    LET sum == checked_add(lhs, rhs)
    IN  IF sum.some THEN Atom(Num(sum.val))
        ELSE IF saturating_add(lhs, rhs) = I32_MAX THEN Atom(Huge)
        ELSE IF saturating_add(lhs, rhs) = I32_MIN THEN Atom(NegHuge)
        ELSE Panic     \* unreachable!()

\* impl Add for Sym
SymAddOp(lhs, rhs) ==
    IF BothNum(lhs, rhs) THEN algebraic_add(lhs.a.v, rhs.a.v)
    ELSE Panic     \* todo!()

\* impl Sub for Sym
SymSubOp(lhs, rhs) ==
    IF BothNum(lhs, rhs)
    THEN LET sub_b == checked_neg(rhs.a.v)
         IN  IF sub_b.some THEN algebraic_add(lhs.a.v, sub_b.val)
             ELSE Atom(NegHuge)
    ELSE Panic     \* todo!()

\* algebraic_mul naming the side of an overflow by the sign of lhs alone.
algebraic_mul_SideOfLhs(lhs, rhs) ==
    LET prod == checked_mul(lhs, rhs)
    IN  IF prod.some THEN Atom(Num(prod.val))
        ELSE IF lhs > 0 THEN Atom(Huge)
        ELSE Atom(NegHuge)

algebraic_mul(lhs, rhs) ==
    LET prod == checked_mul(lhs, rhs)
    IN  IF prod.some THEN Atom(Num(prod.val))
        ELSE IF saturating_mul(lhs, rhs) = I32_MAX THEN Atom(Huge)
        ELSE IF saturating_mul(lhs, rhs) = I32_MIN THEN Atom(NegHuge)
        ELSE Panic     \* unreachable!()

\* impl Mul for Sym
SymMulOp(lhs, rhs) ==
    IF BothNum(lhs, rhs) THEN algebraic_mul(lhs.a.v, rhs.a.v)
    ELSE Panic     \* todo!()

\* impl Div for Sym: the body is todo!()
SymDivOp(lhs, rhs) == Panic

\* for _ in 0..count { result = result * base }
RECURSIVE SymPowLoop(_, _, _)
SymPowLoop(result, base, count) ==
    IF count <= 0 \/ result = Panic THEN result
    ELSE SymPowLoop(SymMulOp(result, base), base, count - 1)

\* Sym::pow, the arm base => match rhs { ... }.  No variant of sym's Atom is
\* called Complex, so the arm "Complex => todo!()" binds every exponent atom
\* that is not a Num.
SymPowOfBase(base, rhs, checks) ==
    IF IsAtom(rhs)
    THEN IF IsNum(rhs.a)
         THEN LET exp == rhs.a.v
                  result == SymPowLoop(Atom(Num(1)), base, wrapping_abs(exp))
              IN  IF checks /\ exp = I32_MIN THEN Panic     \* exp.abs()
                  ELSE IF result = Panic THEN Panic
                  ELSE IF exp > 0 THEN result               \* exp.is_positive()
                  ELSE SymDivOp(Atom(Num(1)), result)
         ELSE Panic     \* todo!()
    ELSE Panic     \* todo!()

\* Sym::pow without its first arm, Sym::Atom(Num(0 | 1)) => self.
SymPowOp_WithoutAbsorbingBase(base, rhs, checks) == SymPowOfBase(base, rhs, checks)

\* Sym::pow: Sym::Atom(Num(0 | 1)) => self, base => match rhs { ... }
SymPowOp(base, rhs, checks) ==
    IF base = Atom(Num(0)) \/ base = Atom(Num(1)) THEN base
    ELSE SymPowOfBase(base, rhs, checks)

(***************************************************************************)
(* Arithmetic operators, notation tree: notation/ops/{mul,div,pow}.rs      *)
(***************************************************************************)
\* impl Mul for Notation (its algebraic_mul is that of sym/ops/mul.rs)
NotationMulOp(lhs, rhs) ==
    IF BothNum(lhs, rhs) THEN algebraic_mul(lhs.a.v, rhs.a.v)
    ELSE Panic     \* todo!()

\* The arm (Number, den @ (Huge | NegativeHuge | Epsilon | NegativeEpsilon)).
NotationDivNumberBySentinel(num, den) ==
    IF num = 0 THEN Atom(Num(0))
    ELSE IF num >= 1
    THEN (IF den = Huge THEN Atom(Epsilon)
          ELSE IF den = NegHuge THEN Atom(NegEpsilon)
          ELSE IF den = Epsilon THEN Atom(Huge)
          ELSE Atom(NegHuge))
    ELSE (IF den = Huge THEN Atom(NegEpsilon)
          ELSE IF den = NegHuge THEN Atom(Epsilon)
          ELSE IF den = Epsilon THEN Atom(NegHuge)
          ELSE Atom(Huge))

\* impl Div for Notation, on two atoms: the arms of the match, first match
\* first.  The Fractions it builds are returned as built.  No arm takes a
\* Huge-class atom over an Epsilon-class one.
NotationDivAtoms(a, b, checks) ==
    IF IsNum(a) /\ IsNum(b)
    THEN (IF b.v = 0 THEN Atom(Undefined)
          ELSE IF b.v = 1 THEN Atom(a)
          ELSE IF b.v = -1
          THEN Checked(Overflows(-a.v), checks, Atom(Num(wrapping_neg(a.v))))
          ELSE Fraction(a, b))
    ELSE IF a.k = "Complex" \/ b.k = "Complex" THEN Atom(Complex)
    ELSE IF a.k = "Undefined" \/ b.k = "Undefined" \/ b = Num(0) THEN Atom(Undefined)
    ELSE IF (IsHugeClass(a) \/ IsEpsilonClass(a)) /\ IsNum(b)
    THEN (IF b.v = 1 THEN Atom(a) ELSE Fraction(a, b))
    ELSE IF IsNum(a) /\ (IsHugeClass(b) \/ IsEpsilonClass(b))
    THEN NotationDivNumberBySentinel(a.v, b)
    ELSE IF (IsHugeClass(a) \/ IsEpsilonClass(a)) /\ IsHugeClass(b)
    THEN Atom(IF b = Huge THEN a ELSE neg(a))
    ELSE IF (a = Epsilon /\ b = Epsilon) \/ (a = NegEpsilon /\ b = NegEpsilon)
    THEN Atom(Huge)
    ELSE IF (a = NegEpsilon /\ b = Epsilon) \/ (a = Epsilon /\ b = NegEpsilon)
    THEN Atom(NegHuge)
    ELSE Panic

NotationDivOp(lhs, rhs, checks) ==
    IF IsAtom(lhs) /\ IsAtom(rhs) THEN NotationDivAtoms(lhs.a, rhs.a, checks)
    ELSE Panic     \* todo!()

RECURSIVE NotationPowLoop(_, _, _)
NotationPowLoop(result, base, count) ==
    IF count <= 0 \/ result = Panic THEN result
    ELSE NotationPowLoop(NotationMulOp(result, base), base, count - 1)

\* Notation::pow
NotationPowOp(base, rhs, checks) ==
    IF base = Atom(Num(0)) \/ base = Atom(Num(1)) THEN base
    ELSE IF IsAtom(rhs)
    THEN IF IsNum(rhs.a)
         THEN LET exp == rhs.a.v
                  result == NotationPowLoop(Atom(Num(1)), base, wrapping_abs(exp))
              IN  IF checks /\ exp = I32_MIN THEN Panic     \* exp.abs()
                  ELSE IF result = Panic THEN Panic
                  ELSE IF exp > 0 THEN result               \* exp.is_positive()
                  ELSE NotationDivOp(Atom(Num(1)), result, checks)
         ELSE IF rhs.a = Huge THEN Atom(Huge)
         ELSE IF rhs.a = NegHuge THEN Atom(Epsilon)
         ELSE Panic     \* todo!()
    ELSE Panic     \* todo!()

(***************************************************************************)
(* The operators as a state machine                                        *)
(***************************************************************************)
\* Expressions standing for the Expr operands of the operators.
ExprOperands == {Fraction(Num(1), Num(2)), Radical(1, 2)}
NotationOperands == {Atom(a) : a \in NotationAtoms} \cup ExprOperands
SymOperands == {Atom(a) : a \in SymAtoms} \cup ExprOperands

Operands(lhs, rhs) == [lhs |-> lhs, rhs |-> rhs]
OperandInputs ==
    {Operands(lhs, rhs) : lhs \in NotationOperands, rhs \in NotationOperands}
        \cup {Operands(lhs, rhs) : lhs \in SymOperands, rhs \in SymOperands}

OfNotation == v.lhs \in NotationOperands /\ v.rhs \in NotationOperands
OfSym == v.lhs \in SymOperands /\ v.rhs \in SymOperands

Apply(name, result) ==
    /\ op = ""
    /\ op' = name
    /\ out' = result
    /\ UNCHANGED <<build, v, op2, out2>>

SymAdd == OfSym /\ Apply("sym::add", SymAddOp(v.lhs, v.rhs))
SymSub == OfSym /\ Apply("sym::sub", SymSubOp(v.lhs, v.rhs))
SymMul == OfSym /\ Apply("sym::mul", SymMulOp(v.lhs, v.rhs))
SymDiv == OfSym /\ Apply("sym::div", SymDivOp(v.lhs, v.rhs))
SymPow == OfSym /\ Apply("sym::pow", SymPowOp(v.lhs, v.rhs, overflow_checks))
NotationMul == OfNotation /\ Apply("notation::mul", NotationMulOp(v.lhs, v.rhs))
NotationDiv ==
    OfNotation /\ Apply("notation::div", NotationDivOp(v.lhs, v.rhs, overflow_checks))
NotationPow ==
    OfNotation /\ Apply("notation::pow", NotationPowOp(v.lhs, v.rhs, overflow_checks))

\* Fraction{num: lhs, den: rhs}.simplify(): the Fraction reducer of the tree
\* of a division, on the atoms divided.
ReduceOperands ==
    /\ op \in {"sym::div", "notation::div"}
    /\ op2 = ""
    /\ IsAtom(v.lhs) /\ IsAtom(v.rhs)
    /\ op2' = "fraction_simplify"
    /\ out2' = simplify(IF op = "notation::div" THEN "notation" ELSE "sym",
                        Fraction(v.lhs.a, v.rhs.a), overflow_checks)
    /\ UNCHANGED <<build, v, op, out>>

InitArith == InitWith(OperandInputs)
NextArith ==
    \/ SymAdd \/ SymSub \/ SymMul \/ SymDiv \/ SymPow
    \/ NotationMul \/ NotationDiv \/ NotationPow
    \/ ReduceOperands
SpecArith == InitArith /\ [][NextArith]_vars

(***************************************************************************)
(* The factoring functions as a state machine: factor.rs                   *)
(***************************************************************************)
\* An i32 returned by a function.
I32Value(n) == [t |-> "i32", n |-> n]

\* gcf as called: ns.map(|x| x.abs()) comes first.
GcfOf(ns, checks) == Checked(AbsOverflows(ns), checks, I32Value(gcf(ns)))

\* The running product of lcm with unchecked multiplication.
RECURSIVE RunningProduct_Unchecked(_, _, _)
RunningProduct_Unchecked(ns, i, prod) ==
    IF i > Len(ns) THEN Some(prod)
    ELSE RunningProduct_Unchecked(ns, i + 1, wrapping_mul(prod, ns[i]))

\* for n in &ns { match prod.checked_mul(*n) { Some(p) => prod = p, None => return Huge } }
RECURSIVE RunningProduct(_, _, _)
RunningProduct(ns, i, prod) ==
    IF i > Len(ns) THEN Some(prod)
    ELSE LET p == checked_mul(prod, ns[i])
         IN  IF p.some THEN RunningProduct(ns, i + 1, p.val) ELSE None

\* lcm: Huge when the running product overflows; otherwise the first common
\* multiple of the magnitudes in abs_max..prod, or prod.
lcm(ns, checks) ==
    LET running == RunningProduct(ns, 1, 1)
        prod == running.val
        abs_ns == MapAbs(ns)
        abs_max == SeqMax(abs_ns)
        multiples == {m \in abs_max..(prod - 1) : is_common_multiple_of(m, abs_ns)}
    IN  IF ~running.some THEN Huge
        ELSE Checked(AbsOverflows(ns), checks,
                     IF multiples = {} THEN Num(prod)
                     ELSE Num(CHOOSE m \in multiples : \A o \in multiples : m <= o))

MaxCount == 2
Arrays(count) == [1..count -> I32]

Gcf ==
    /\ op = ""
    /\ op' = "gcf"
    /\ out' = GcfOf(v, overflow_checks)
    /\ UNCHANGED <<build, v, op2, out2>>

Lcm ==
    /\ op = ""
    /\ op' = "lcm"
    /\ out' = lcm(v, overflow_checks)
    /\ UNCHANGED <<build, v, op2, out2>>

InitFactor == \E count \in 1..MaxCount : InitWith(Arrays(count))
NextFactor == Gcf \/ Lcm
SpecFactor == InitFactor /\ [][NextFactor]_vars

(***************************************************************************)
(* lcm called again on a reordering of its array: factor.rs                *)
(***************************************************************************)
OrderCount == 3

\* The orders in which the elements of an array of this length can be passed.
Reorderings(count) ==
    {p \in [1..count -> 1..count] : \A i, j \in 1..count : i # j => p[i] # p[j]}

\* lcm(ns) for ns a reordering of the array already passed.
LcmReordered ==
    /\ op = "lcm"
    /\ op2 = ""
    /\ \E p \in Reorderings(Len(v)) :
           out2' = lcm([i \in 1..Len(v) |-> v[p[i]]], overflow_checks)
    /\ op2' = "reordered"
    /\ UNCHANGED <<build, v, op, out>>

InitOrder == InitWith(Arrays(OrderCount))
NextOrder == Lcm \/ LcmReordered
SpecOrder == InitOrder /\ [][NextOrder]_vars

(***************************************************************************)
(* Functions of one integer as a state machine: factor.rs and lib.rs       *)
(***************************************************************************)
\* A Vec<(i32, i32)> and a bool returned by a function.
Pairs(fs) == [t |-> "pairs", fs |-> fs]
Bool(b) == [t |-> "bool", b |-> b]

\* factors as called: self.abs() comes first.
FactorsOf(self, checks) == Checked(self = I32_MIN, checks, Pairs(factors(self)))

\* has_multiple_factors: some fac of 2..abs_n divides abs_n.
has_multiple_factors(self) ==
    LET abs_n == wrapping_abs(self)
    IN  \E fac \in 2..(abs_n - 1) : is_factor_of(fac, abs_n)

\* is_prime: *self != 0 && !self.has_multiple_factors()
is_prime(self, checks) ==
    IF self = 0 THEN Bool(FALSE)
    ELSE Checked(self = I32_MIN, checks, Bool(~has_multiple_factors(self)))

\* is_composite: self.has_multiple_factors()
is_composite(self, checks) ==
    Checked(self = I32_MIN, checks, Bool(has_multiple_factors(self)))

\* sqrt_i as called: Some(root), None, a panic, or a scan that never ends.
SqrtOf(n, checks) ==
    LET s == sqrt_i(n, checks)
    IN  IF s.r = "panic" THEN Panic
        ELSE IF s.r = "diverge" THEN Diverge
        ELSE s

Call(name, result) ==
    /\ op' = name
    /\ out' = result
    /\ UNCHANGED <<build, v, op2, out2>>

Factors == op = "" /\ Call("factors", FactorsOf(v, overflow_checks))
IsPrime == op = "" /\ Call("is_prime", is_prime(v, overflow_checks))
IsComposite == op = "" /\ Call("is_composite", is_composite(v, overflow_checks))
SqrtI == op = "" /\ Call("sqrt_i", SqrtOf(v, overflow_checks))

InitNumber == InitWith(I32)
NextNumber == Factors \/ IsPrime \/ IsComposite \/ SqrtI
SpecNumber == InitNumber /\ [][NextNumber]_vars

(***************************************************************************)
(* Equality as a state machine: sym/atom.rs, notation/atom.rs and the      *)
(* derived PartialEq of the Fraction forms                                 *)
(***************************************************************************)
\* notation's PartialEq for Atom: only Number with Number can be equal.
NotationAtomEq(a, b) == a.k = "Num" /\ b.k = "Num" /\ a.v = b.v

\* #[derive(PartialEq)] on Fraction{num, den}: field by field, with the
\* atoms' own eq.
SymFractionEq(f, g) == AtomEq(f.num, g.num) /\ AtomEq(f.den, g.den)
NotationFractionEq(f, g) == NotationAtomEq(f.num, g.num) /\ NotationAtomEq(f.den, g.den)

AtomPairs ==
    {Operands(a, b) : a \in NotationAtoms, b \in NotationAtoms}
        \cup {Operands(a, b) : a \in SymAtoms, b \in SymAtoms}
SymPair == v.lhs \in SymAtoms /\ v.rhs \in SymAtoms
NotationPair == v.lhs \in NotationAtoms /\ v.rhs \in NotationAtoms

\* lhs == rhs
SymEq == op = "" /\ SymPair /\ Call("sym::eq", Bool(AtomEq(v.lhs, v.rhs)))
NotationEq ==
    op = "" /\ NotationPair /\ Call("notation::eq", Bool(NotationAtomEq(v.lhs, v.rhs)))

\* rhs == lhs, after lhs == rhs
FlippedEq ==
    /\ op \in {"sym::eq", "notation::eq"}
    /\ op2 = ""
    /\ op2' = "flipped"
    /\ out2' = Bool(IF op = "sym::eq" THEN AtomEq(v.rhs, v.lhs)
                    ELSE NotationAtomEq(v.rhs, v.lhs))
    /\ UNCHANGED <<build, v, op, out>>

\* f == f for f = Fraction{num: lhs, den: rhs}
SymFractionEqSelf ==
    /\ op = "" /\ SymPair
    /\ Call("sym::fraction_eq",
            Bool(SymFractionEq(Fraction(v.lhs, v.rhs), Fraction(v.lhs, v.rhs))))
NotationFractionEqSelf ==
    /\ op = "" /\ NotationPair
    /\ Call("notation::fraction_eq",
            Bool(NotationFractionEq(Fraction(v.lhs, v.rhs), Fraction(v.lhs, v.rhs))))

InitEq == InitWith(AtomPairs)
NextEq ==
    SymEq \/ NotationEq \/ FlippedEq \/ SymFractionEqSelf \/ NotationFractionEqSelf
SpecEq == InitEq /\ [][NextEq]_vars

(***************************************************************************)
(* Properties of the reducers (under SpecSimplify)                         *)
(***************************************************************************)
Simplified == op \in {"notation", "sym"}
SimplifiedFraction == Simplified /\ v.t = "Fraction"
SimplifiedRadical == Simplified /\ v.t = "Radical"
SimplifiedFractionOfNumbers == SimplifiedFraction /\ IsNum(v.num) /\ IsNum(v.den)

\* C1 (exact division): simplifying Fraction{Number(n), Number(d)} with
\* d # 0 and d dividing n returns the atom Number(n/d).
C1_ExactDivision ==
    (/\ SimplifiedFractionOfNumbers
     /\ v.den.v # 0
     /\ TruncRem(v.num.v, v.den.v) = 0)
        => out = Atom(Num(TruncDiv(v.num.v, v.den.v)))

\* C2 (idempotence): when simplifying a Fraction or a Radical returns an
\* expression, simplifying that expression returns it unchanged.
C2_Idempotence == (op2 = "simplify") => out2 = out

\* C3 (canonical radicand): when simplifying a Radical returns a Radical, its
\* radicand is divisible by no perfect square greater than 1.
C3_CanonicalRadicand ==
    (SimplifiedRadical /\ out.t = "Radical")
        => \A s \in 2..I32_MAX : TruncRem(out.rad, s * s) # 0

\* C4 (sign transfer): for nonzero n and d, Fraction{n, -d} and Fraction{-n, d}
\* simplify to the same returned value.
C4_SignTransfer == (op2 = "sign_transfer") => (Returned(out) /\ out2 = out)

\* A fraction with a negative denominator whose reduced form carries the sign
\* in the numerator, and its mirror simplified too.
C4_Witness ==
    /\ op2 = "sign_transfer"
    /\ v.den.v < 0
    /\ out.t = "Fraction"
    /\ out.num.v < 0

\* C5 (sentinel dominance): Fraction{Undefined, x} and Fraction{x, Number(0)}
\* simplify to Undefined for every atom x.
C5_SentinelDominance ==
    (SimplifiedFraction /\ (v.num = Undefined \/ v.den = Num(0)))
        => out = Atom(Undefined)

\* C8 (no panic, no silent wrap): simplifying a Fraction of two Numbers or a
\* Radical overflows in no intermediate operation (a build with overflow
\* checks does not panic) and terminates.
C8_NoOverflow ==
    (SimplifiedFractionOfNumbers \/ SimplifiedRadical) => Returned(out)

RECURSIVE Gcd(_, _)
Gcd(a, b) == IF b = 0 THEN a ELSE Gcd(b, a % b)

\* C10 (lowest terms): for Numbers num, den with den # 0 not dividing num the
\* result is Fraction{p, q} with q >= 2, gcd(|p|, q) = 1, p*den = q*num and
\* p negative iff exactly one of num, den is negative.
C10_LowestTerms ==
    (/\ SimplifiedFractionOfNumbers
     /\ v.den.v # 0
     /\ TruncRem(v.num.v, v.den.v) # 0)
        => /\ out.t = "Fraction"
           /\ out.den.v >= 2
           /\ Gcd(Magnitude(out.num.v), out.den.v) = 1
           /\ out.num.v * v.den.v = out.den.v * v.num.v
           /\ (out.num.v < 0) = ((v.num.v < 0) # (v.den.v < 0))

(***************************************************************************)
(* Properties of the operators (under SpecArith)                           *)
(***************************************************************************)
OnAtoms == IsAtom(v.lhs) /\ IsAtom(v.rhs)
OnNumbers == BothNum(v.lhs, v.rhs)

\* C6 (addition overflow mapping): Number(a) + Number(b) is Number(a+b) when
\* the true sum is representable, Huge when it exceeds the maximum and
\* NegativeHuge when it is below the minimum.
C6_AddOverflowMapping ==
    (op = "sym::add" /\ OnNumbers)
        => LET sum == v.lhs.a.v + v.rhs.a.v
           IN  out = IF sum > I32_MAX THEN Atom(Huge)
                     ELSE IF sum < I32_MIN THEN Atom(NegHuge)
                     ELSE Atom(Num(sum))

\* The minimum plus the maximum, added to Number(-1).
C6_Witness ==
    /\ op = "sym::add"
    /\ v = Operands(Atom(Num(I32_MIN)), Atom(Num(I32_MAX)))
    /\ out = Atom(Num(-1))

\* C7 (closed arithmetic): Add, Sub, Mul, Div and pow of two atom-valued Syms,
\* Numbers and sentinels in every combination, return a Sym: none panics and
\* none reaches an unimplemented path.
Operators ==
    {"sym::add", "sym::sub", "sym::mul", "sym::div", "sym::pow",
     "notation::mul", "notation::div", "notation::pow"}
C7_ClosedArithmetic == (op \in Operators /\ OnAtoms) => Returned(out)

\* C9 (division delegates): a / b on two atoms returns what
\* Fraction{num: a, den: b}.simplify() returns.
C9_DivDelegates == (op2 = "fraction_simplify") => (Returned(out) /\ out = out2)

\* C11 (multiplication overflow mapping): Number(a) * Number(b) is Number(a*b)
\* when the true product is representable, Huge when it exceeds the maximum and
\* NegativeHuge when it is below the minimum, and b * a gives the same.
C11_MulOverflowMapping ==
    (op \in {"sym::mul", "notation::mul"} /\ OnNumbers)
        => LET prod == v.lhs.a.v * v.rhs.a.v
           IN  /\ out = IF prod > I32_MAX THEN Atom(Huge)
                         ELSE IF prod < I32_MIN THEN Atom(NegHuge)
                         ELSE Atom(Num(prod))
               /\ out = algebraic_mul(v.rhs.a.v, v.lhs.a.v)

\* A negative lhs times a positive rhs whose product is below the minimum.
C11_Witness ==
    /\ op = "sym::mul"
    /\ v = Operands(Atom(Num(-2)), Atom(Num(I32_MAX)))
    /\ out = Atom(NegHuge)

\* C12 (subtraction): Number(a) - Number(b) is Number(a-b) when the true
\* difference is representable, Huge when it is above the maximum and
\* NegativeHuge when it is below the minimum.
C12_Subtraction ==
    (op = "sym::sub" /\ OnNumbers)
        => LET diff == v.lhs.a.v - v.rhs.a.v
           IN  out = IF diff > I32_MAX THEN Atom(Huge)
                     ELSE IF diff < I32_MIN THEN Atom(NegHuge)
                     ELSE Atom(Num(diff))

(***************************************************************************)
(* Properties of the reducers on sentinels (under SpecSimplify)            *)
(***************************************************************************)
\* The sign of a nonzero atom, and the sign rule of a quotient.
Positive(a) == a = Huge \/ a = Epsilon \/ (IsNum(a) /\ a.v > 0)
SignsAgree(num, den) == Positive(num) = Positive(den)
IsSentinel(a) == IsHugeClass(a) \/ IsEpsilonClass(a)
HugeOf(positive) == Atom(IF positive THEN Huge ELSE NegHuge)
EpsilonOf(positive) == Atom(IF positive THEN Epsilon ELSE NegEpsilon)

\* C13 (sign of a sentinel over a Number): for num in {Huge, NegativeHuge,
\* Epsilon, NegativeEpsilon} and den a nonzero Number, Fraction{num, den}
\* simplifies to the atom of num's class that is positive iff num and den
\* have the same sign.
C13_SentinelOverNumber ==
    (SimplifiedFraction /\ IsSentinel(v.num) /\ IsNum(v.den) /\ v.den.v # 0)
        => out = IF IsHugeClass(v.num) THEN HugeOf(SignsAgree(v.num, v.den))
                 ELSE EpsilonOf(SignsAgree(v.num, v.den))

\* C14 (Huge over Huge): a Fraction whose numerator and denominator are both
\* Huge-class simplifies to Huge if their signs agree and to NegativeHuge
\* otherwise.
C14_HugeOverHuge ==
    (SimplifiedFraction /\ IsHugeClass(v.num) /\ IsHugeClass(v.den))
        => out = HugeOf(SignsAgree(v.num, v.den))

\* C15 (division by an Epsilon-class denominator): Fraction{num, den} with
\* den in {Epsilon, NegativeEpsilon} simplifies to Unknown when num is
\* Epsilon-class too, and for num a nonzero Number or Huge-class to Huge if
\* num and den have the same sign and to NegativeHuge otherwise.
C15_EpsilonDenominator ==
    /\ (SimplifiedFraction /\ IsEpsilonClass(v.den) /\ IsEpsilonClass(v.num))
            => out = Atom(Unknown)
    /\ (SimplifiedFraction /\ IsEpsilonClass(v.den)
            /\ (IsHugeClass(v.num) \/ (IsNum(v.num) /\ v.num.v # 0)))
            => out = HugeOf(SignsAgree(v.num, v.den))

\* C16 (division by a Huge-class denominator): for num a nonzero Number or an
\* Epsilon-class atom and den in {Huge, NegativeHuge}, Fraction{num, den}
\* simplifies to Epsilon when num and den have the same sign and to
\* NegativeEpsilon otherwise; a Number(0) numerator gives Number(0).
C16_HugeDenominator ==
    /\ (SimplifiedFraction /\ IsHugeClass(v.den)
            /\ (IsEpsilonClass(v.num) \/ (IsNum(v.num) /\ v.num.v # 0)))
            => out = EpsilonOf(SignsAgree(v.num, v.den))
    /\ (SimplifiedFraction /\ IsHugeClass(v.den) /\ v.num = Num(0))
            => out = Atom(Num(0))

\* A negative Number over NegativeHuge, reduced to Epsilon.
C16_Witness ==
    /\ op = "notation"
    /\ v = Fraction(Num(-3), NegHuge)
    /\ out = Atom(Epsilon)

\* C17 (radicals that reduce to an atom): for every coef, Radical{coef, rad}
\* simplifies to Complex (the imaginary sentinel) when rad < 0, to Number(0)
\* when rad = 0, to Number(coef) when rad = 1 and to Number(coef * r) when
\* rad = r * r >= 2.
C17_RadicalToAtom ==
    SimplifiedRadical
        => /\ v.rad < 0 => (IsAtom(out) /\ out.a.k \in {"Complex", "Imaginary"})
           /\ v.rad = 0 => out = Atom(Num(0))
           /\ v.rad = 1 => out = Atom(Num(v.coef))
           /\ \A r \in 2..I32_MAX : v.rad = r * r => out = Atom(Num(v.coef * r))

(***************************************************************************)
(* Properties of the factoring functions (under SpecFactor)                *)
(***************************************************************************)
Elements(ns) == {ns[i] : i \in 1..Len(ns)}
Divides(d, n) == \E q \in I32_MIN..I32_MAX : n = d * q

\* C18 (gcf): on a non-empty array of integers that are not all zero, gcf
\* returns the greatest positive integer dividing every element.
C18_Gcf ==
    (op = "gcf" /\ Elements(v) # {0})
        => /\ out.t = "i32"
           /\ out.n >= 1
           /\ \A n \in Elements(v) : Divides(out.n, n)
           /\ \A d \in 1..(I32_MAX + 1) :
                  (\A n \in Elements(v) : Divides(d, n)) => d <= out.n

\* The product of the first i inputs, and whether every such product is
\* representable.
RECURSIVE PrefixProduct(_, _)
PrefixProduct(ns, i) == IF i = 0 THEN 1 ELSE PrefixProduct(ns, i - 1) * ns[i]
ProductRepresentable(ns) == \A i \in 1..Len(ns) : ~Overflows(PrefixProduct(ns, i))

\* C19 (lcm value): on a non-empty array of nonzero integers whose running
\* product is representable, lcm returns Num(m) with m the least positive
\* integer that every input divides.
C19_LcmValue ==
    (op = "lcm" /\ 0 \notin Elements(v) /\ ProductRepresentable(v))
        => /\ out # Panic
           /\ out.k = "Num"
           /\ out.v >= 1
           /\ \A n \in Elements(v) : Divides(n, out.v)
           /\ \A m \in 1..I32_MAX :
                  (\A n \in Elements(v) : Divides(n, m)) => out.v <= m

\* C20 (lcm conservative overflow): lcm returns Huge if and only if the
\* left-to-right checked running product of the inputs overflows at some step,
\* also when the least common multiple itself is representable.
C20_LcmHuge == (op = "lcm") => ((out = Huge) <=> ~ProductRepresentable(v))

\* Two equal inputs whose square overflows: Huge, though the least common
\* multiple is the input.
C20_Witness == op = "lcm" /\ v = <<8, 8>> /\ out = Huge

(***************************************************************************)
(* Properties of the functions of one integer (under SpecNumber)           *)
(***************************************************************************)
\* C21 (factors): for nonzero n, factors(n) starts with (1, n), lists its
\* factors in strictly ascending order, every pair multiplies to n, and the
\* factors are exactly the positive divisors of |n| from 1 through |n|.
C21_Factors ==
    (op = "factors" /\ v # 0)
        => /\ out.t = "pairs"
           /\ out.fs[1] = <<1, v>>
           /\ \A i \in 1..(Len(out.fs) - 1) : out.fs[i][1] < out.fs[i + 1][1]
           /\ \A i \in 1..Len(out.fs) : out.fs[i][1] * out.fs[i][2] = v
           /\ {out.fs[i][1] : i \in 1..Len(out.fs)}
                  = {d \in 1..Magnitude(v) : Divides(d, v)}

(***************************************************************************)
(* Properties of pow (under SpecArith)                                     *)
(***************************************************************************)
Powered == op \in {"sym::pow", "notation::pow"}

Beyond == Pow2(IntBits)
Held(x) == IF x > Beyond THEN Beyond ELSE IF x < -Beyond THEN -Beyond ELSE x
RECURSIVE Power(_, _)
Power(b, e) == IF e = 0 THEN 1 ELSE Held(Power(b, e - 1) * b)

Base == v.lhs.a.v
Exponent == v.rhs.a.v
PoweredNumbers == Powered /\ OnNumbers /\ Base \notin {0, 1}

\* C23 (pow overflow propagation): for a Number base b not in {0, 1} and a
\* positive Number exponent e with b^e outside the i32 range, pow returns Huge
\* or NegativeHuge, matching the sign of b^e.
C23_PowOverflow ==
    (PoweredNumbers /\ Exponent > 0 /\ Overflows(Power(Base, Exponent)))
        => out = HugeOf(Power(Base, Exponent) > 0)

\* C24 (pow on Numbers agrees with exponentiation): for a Number base b not
\* in {0, 1} and a Number exponent e with b^|e| representable, pow returns
\* Number(b^e) when e >= 0 and the value of
\* Fraction{Number(1), Number(b^|e|)}.simplify() when e < 0.
C24_PowOnNumbers ==
    (PoweredNumbers /\ ~Overflows(Power(Base, Magnitude(Exponent))))
        => IF Exponent >= 0
           THEN out = Atom(Num(Power(Base, Exponent)))
           ELSE out = simplify(IF op = "sym::pow" THEN "sym" ELSE "notation",
                               Fraction(Num(1), Num(Power(Base, -Exponent))),
                               overflow_checks)

(***************************************************************************)
(* Properties of equality (under SpecEq)                                   *)
(***************************************************************************)
SameNumber(a, b) == IsNum(a) /\ IsNum(b) /\ a.v = b.v
SameVariable(a, b) == a.k = "Var" /\ b.k = "Var" /\ a.v = b.v
NumberOrVariable(a) == a.k \in {"Num", "Var"}

\* C25 (atom equality): two atoms compare equal iff both are Numbers of the
\* same value or both variables of the same identifier; equality is
\* symmetric; a comparison with a sentinel on either side is false, so a
\* Fraction holding a sentinel is not equal to itself.
C25_AtomEquality ==
    /\ (op \in {"sym::eq", "notation::eq"})
           => out = Bool(SameNumber(v.lhs, v.rhs) \/ SameVariable(v.lhs, v.rhs))
    /\ (op2 = "flipped") => out2 = out
    /\ (op \in {"sym::fraction_eq", "notation::fraction_eq"}
            /\ ~(NumberOrVariable(v.lhs) /\ NumberOrVariable(v.rhs)))
           => out = Bool(FALSE)

\* Undefined compared with Undefined: not equal.
C25_Witness ==
    /\ op = "sym::eq"
    /\ v = Operands(Undefined, Undefined)
    /\ out = Bool(FALSE)

(***************************************************************************)
(* Properties of sqrt_i and the primality flags (under SpecNumber)         *)
(***************************************************************************)
Roots(n) == {r \in 0..I32_MAX : r * r = n}

\* C26 (sqrt_i): sqrt_i(n) returns the root r >= 0 with r * r = n when there
\* is one, and no result when n < 0 or n is not a perfect square.
C26_SqrtI ==
    (op = "sqrt_i")
        => IF Roots(v) = {} THEN out = SqrtNone
           ELSE \E r \in Roots(v) : out = SqrtSome(r)

\* n has a divisor d with 2 <= d < |n|.
HasProperDivisor(n) == \E d \in 2..(Magnitude(n) - 1) : Divides(d, n)

\* C27 (primality flags): is_composite(n) holds iff some d with 2 <= d < |n|
\* divides n, and is_prime(n) holds iff n # 0 and no such d exists.
C27_PrimalityFlags ==
    /\ (op = "is_composite") => out = Bool(HasProperDivisor(v))
    /\ (op = "is_prime") => out = Bool(v # 0 /\ ~HasProperDivisor(v))

(***************************************************************************)
(* Further properties of the reducers (under SpecSimplify)                 *)
(***************************************************************************)
Sign(n) == IF n > 0 THEN 1 ELSE IF n < 0 THEN -1 ELSE 0

\* C28 (radical simplification preserves the value): for every coef and every
\* rad >= 2 that is not a perfect square, Radical{coef, rad} simplifies to
\* Radical{c, r} with c*c*r = coef*coef*rad and c of the sign of coef.
C28_RadicalValue ==
    (SimplifiedRadical /\ v.rad >= 2 /\ Roots(v.rad) = {})
        => /\ out.t = "Radical"
           /\ out.coef * out.coef * out.rad = v.coef * v.coef * v.rad
           /\ Sign(out.coef) = Sign(v.coef)

\* An arm of the Fraction reducer standing before the arms for variables
\* takes (num, den).
EarlierRule(num, den) ==
    \/ num.k \in {"Imaginary", "Undefined", "Unknown"}
    \/ den.k \in {"Imaginary", "Undefined", "Unknown"}
    \/ den = Num(1) \/ den = Num(0) \/ num = Num(0)

\* C29 (fractions containing a variable): Fraction{n, d} with n and d equal,
\* nonzero Numbers or variables simplifies to Number(1); a fraction holding a
\* variable that no earlier rule takes and whose sides are not equal is
\* returned as the same Fraction.
C29_FractionWithVariable ==
    (op = "sym" /\ v.t = "Fraction")
        => /\ (NumberOrVariable(v.num) /\ v.num # Num(0)
                  /\ (SameNumber(v.num, v.den) \/ SameVariable(v.num, v.den)))
               => out = Atom(Num(1))
           /\ ((v.num.k = "Var" \/ v.den.k = "Var")
                  /\ ~EarlierRule(v.num, v.den)
                  /\ ~SameVariable(v.num, v.den))
               => out = v

\* C30 (lcm and input order): lcm of an array and lcm of any reordering of it
\* are the same result, the same Num or Huge both times.
C30_LcmOrder == op2 = "reordered" => out2 = out

====
